---- MODULE Spec2Model ----
(***************************************************************************)
(* A model of rangeTools: the Range value type (src/range.py) with its     *)
(* bounds, set algebra, split partitioning and iteration generators, and   *)
(* the Ranges collection (src/ranges.py).                                  *)
(*                                                                         *)
(* Elements are NumberLike values; the model uses exact rational           *)
(* arithmetic (the behaviour of the code over fractions.Fraction, and over *)
(* floats wherever the float results are exact).  A number is a pair       *)
(* <<n, d>> in lowest terms with d > 0; Python's None is <<0, 0>>.         *)
(***************************************************************************)
EXTENDS Integers, Sequences, FiniteSets, TLC

VARIABLES r, op, arg, pre, ret, nops

vars == <<r, op, arg, pre, ret, nops>>

(***************************************************************************)
(* Bounds of the model.                                                    *)
(***************************************************************************)
MaxVal == 2
MaxOps == 2
MaxSections == 3
MaxParts == 5
MaxMembers == 2
MaxYield == 4

(***************************************************************************)
(* NumberLike arithmetic (src/numberLike.py): exact rationals.             *)
(***************************************************************************)
None == <<0, 0>>

IsNone(x) == x[2] = 0

RECURSIVE GCD(_, _)
GCD(a, b) == IF b = 0 THEN a ELSE GCD(b, a % b)

Rat(n, d) ==
    LET Abs(i) == IF i < 0 THEN -i ELSE i
        g == GCD(Abs(n), Abs(d))
        s == IF d < 0 THEN -1 ELSE 1
    IN  <<(s * n) \div g, (s * d) \div g>>

Num(i) == <<i, 1>>

Zero == Num(0)

__sub__(a, b) == Rat(a[1] * b[2] - b[1] * a[2], a[2] * b[2])
__add__(a, b) == Rat(a[1] * b[2] + b[1] * a[2], a[2] * b[2])
__mul__(a, b) == Rat(a[1] * b[1], a[2] * b[2])
\* defined for b # 0 only; callers test for the ZeroDivisionError first
__truediv__(a, b) == Rat(a[1] * b[2], a[2] * b[1])
__lt__(a, b) == a[1] * b[2] < b[1] * a[2]
__gt__(a, b) == __lt__(b, a)
__le__(a, b) == a[1] * b[2] <= b[1] * a[2]
__ge__(a, b) == __le__(b, a)
\* math.floor / int(a // b): the largest integer not above a (\div floors)
Floor(a) == a[1] \div a[2]
__floordiv__(a, b) == Floor(__truediv__(a, b))

RMin(a, b) == IF __lt__(b, a) THEN b ELSE a
RMax(a, b) == IF __gt__(b, a) THEN b ELSE a

\* the default elementFactory: None becomes 0, numbers are kept
elementFactory(x) == IF IsNone(x) THEN Zero ELSE x

(***************************************************************************)
(* Range: fields and property setters.                                     *)
(* A Range is a record; _center and _step are None until set.              *)
(***************************************************************************)
\* low.setter: a low above the current high drags high up to it.  During
\* construction _high does not exist yet (hasHigh = FALSE) and is not read.
SetLowField(x, low, hasHigh) ==
    LET v == elementFactory(low)
    IN  [x EXCEPT !.low = v,
                  !.high = IF hasHigh /\ __gt__(v, x.high) THEN v ELSE x.high]

low_setter(x, low) == SetLowField(x, low, TRUE)

\* a faulty high.setter that forgets the repair of low
high_setter_mutant(x, high) ==
    [x EXCEPT !.high = elementFactory(high)]

\* high.setter: a high below the current low drags low down to it
high_setter(x, high) ==
    LET v == elementFactory(high)
    IN  [x EXCEPT !.high = v,
                  !.low = IF __lt__(v, x.low) THEN v ELSE x.low]

center_setter(x, center) == [x EXCEPT !.center = elementFactory(center)]

step_setter(x, step) == [x EXCEPT !.step = elementFactory(step)]

step(x) == IF IsNone(x.step) THEN elementFactory(Num(1)) ELSE x.step

span(x) == __sub__(x.high, x.low)

average(x) == __truediv__(__add__(x.low, x.high), Num(2))

center(x) == IF ~IsNone(x.center) THEN x.center ELSE average(x)

\* assign(low, high) for scalar arguments (the final else branch)
assign(x, low, high, hasHigh) ==
    LET a == SetLowField(x, low, hasHigh)
    IN  IF ~IsNone(high) THEN high_setter(a, high) ELSE high_setter(a, low)

RECURSIVE SeqMin(_), SeqMax(_)
SeqMin(s) == IF Len(s) = 1 THEN s[1] ELSE RMin(s[1], SeqMin(Tail(s)))
SeqMax(s) == IF Len(s) = 1 THEN s[1] ELSE RMax(s[1], SeqMax(Tail(s)))

\* assign(iterable): low = min(iterable), high = max(iterable)
assignIterable(x, items) ==
    high_setter(low_setter(x, SeqMin(items)), SeqMax(items))

\* Range.__init__: flags, then step and center when given, then assign
Range(low, high, stp, ctr, lowInclusive, highInclusive) ==
    LET x0 == [low |-> None, high |-> None, center |-> None, step |-> None,
               lowInclusive |-> lowInclusive, highInclusive |-> highInclusive]
        x1 == IF ~IsNone(stp) THEN step_setter(x0, stp) ELSE x0
        x2 == IF ~IsNone(ctr) THEN center_setter(x1, ctr) ELSE x1
    IN  assign(x2, low, high, FALSE)

Range2(low, high) == Range(low, high, None, None, TRUE, FALSE)

\* copy(): a new Range from the properties (center and step are read
\* through their getters, so the copy has both set explicitly)
copy(x) == Range(x.low, x.high, step(x), center(x),
                 x.lowInclusive, x.highInclusive)

(***************************************************************************)
(* Mutating operations: span and tolerance setters, shift, set algebra.    *)
(***************************************************************************)
\* span.setter: high = low + span, then an overridden center above the new
\* high is clamped down to it
span_setter(x, newSpan) ==
    LET a == high_setter(x, __add__(x.low, elementFactory(newSpan)))
    IN  IF ~IsNone(a.center) /\ __gt__(a.center, a.high)
        THEN [a EXCEPT !.center = a.high]
        ELSE a

\* tolerance.setter with a number: low = center - t, then high = center + t
\* (center is read again after low has been assigned)
tolerance_setter(x, t) ==
    LET a == low_setter(x, __sub__(center(x), t))
    IN  high_setter(a, __add__(center(a), t))

\* tolerance.setter with a (value, tolerance) tuple
tolerance_setter_tuple(x, c, t) ==
    LET a == center_setter(x, c)
        b == low_setter(a, __sub__(center(a), t))
    IN  high_setter(b, __add__(center(b), t))

\* toleranceString.setter: the center override is dropped first.  The loop
\* takes the first character as the value when it is decimal (doneVal is set
\* after the first character whatever it is); of the characters after it the
\* decimal ones are collected into tol_l, and the first other character after
\* a collected one ends the loop.  float('') raises ValueError; otherwise
\* low = val - tol, then high = val + tol.
toleranceString_setter(x, toleranceString) ==
    LET isdecimal(c) == c \in {"0", "1", "2", "3", "4", "5", "6", "7", "8", "9"}
        RECURSIVE float(_)
        float(l) ==
            IF Len(l) = 0 THEN 0
            ELSE 10 * float(SubSeq(l, 1, Len(l) - 1))
                 + (CHOOSE d \in 0..9 : ToString(d) = l[Len(l)])
        RECURSIVE scan(_, _)
        scan(i, acc) ==
            IF i > Len(toleranceString) THEN acc
            ELSE IF isdecimal(toleranceString[i])
            THEN scan(i + 1, Append(acc, toleranceString[i]))
            ELSE IF Len(acc) > 0 THEN acc
            ELSE scan(i + 1, acc)
        a == [x EXCEPT !.center = None]
        val_l == IF Len(toleranceString) > 0 /\ isdecimal(toleranceString[1])
                 THEN <<toleranceString[1]>> ELSE <<>>
        tol_l == scan(2, <<>>)
    IN  IF Len(val_l) = 0 \/ Len(tol_l) = 0
        THEN [obj |-> a, err |-> "ValueError"]
        ELSE LET val == elementFactory(Num(float(val_l)))
                 tol == elementFactory(Num(float(tol_l)))
                 b == low_setter(a, __sub__(val, tol))
             IN  [obj |-> high_setter(b, __add__(val, tol)), err |-> ""]

\* shift(other): low += other, then high += other, through the setters
shift(x, other) ==
    LET o == elementFactory(other)
        a == low_setter(x, __add__(x.low, o))
    IN  high_setter(a, __add__(a.high, o))

shifted(x, other) == shift(copy(x), other)

\* a faulty loop body that takes the other's flag on a tie instead of the OR
maximizeOne_mutant(x, another) ==
    LET a == IF another.low = x.low
             THEN [x EXCEPT !.lowInclusive = another.lowInclusive]
             ELSE IF __lt__(another.low, x.low)
             THEN [low_setter(x, another.low) EXCEPT
                       !.lowInclusive = another.lowInclusive]
             ELSE x
    IN  IF another.high = a.high
        THEN [a EXCEPT !.highInclusive = another.highInclusive]
        ELSE IF __gt__(another.high, a.high)
        THEN [high_setter(a, another.high) EXCEPT
                  !.highInclusive = another.highInclusive]
        ELSE a

\* one pass of the loop body of maximize
maximizeOne(x, another) ==
    LET a == IF another.low = x.low
             THEN [x EXCEPT !.lowInclusive = another.lowInclusive \/ x.lowInclusive]
             ELSE IF __lt__(another.low, x.low)
             THEN [low_setter(x, another.low) EXCEPT
                       !.lowInclusive = another.lowInclusive]
             ELSE x
    IN  IF another.high = a.high
        THEN [a EXCEPT !.highInclusive = another.highInclusive \/ a.highInclusive]
        ELSE IF __gt__(another.high, a.high)
        THEN [high_setter(a, another.high) EXCEPT
                  !.highInclusive = another.highInclusive]
        ELSE a

RECURSIVE maximize(_, _)
maximize(x, otherRanges) ==
    IF otherRanges = <<>> THEN x
    ELSE maximize(maximizeOne(x, Head(otherRanges)), Tail(otherRanges))

maximized(x, otherRanges) == maximize(copy(x), otherRanges)

\* the low half of the loop body of minimize; brk is the break statement
minimizeLow(x, another) ==
    IF another.low = x.low
    THEN [rng |-> [x EXCEPT !.lowInclusive =
                       ~(another.lowInclusive \/ x.lowInclusive)],
          brk |-> FALSE]
    ELSE IF __gt__(another.low, x.low)
    THEN LET a == [low_setter(x, another.low) EXCEPT
                       !.lowInclusive = another.lowInclusive]
         IN  IF a.low = a.high
             THEN [rng |-> [low_setter(a, a.high) EXCEPT
                                !.lowInclusive = a.highInclusive],
                   brk |-> FALSE]
             ELSE IF __gt__(a.low, a.high)
             THEN [rng |-> [low_setter(a, a.high) EXCEPT
                                !.lowInclusive = FALSE],
                   brk |-> TRUE]
             ELSE [rng |-> a, brk |-> FALSE]
    ELSE [rng |-> x, brk |-> FALSE]

\* the high half of the loop body of minimize
minimizeHigh(a, another) ==
    IF another.high = a.high
    THEN [a EXCEPT !.highInclusive = another.highInclusive \/ a.highInclusive]
    ELSE IF __gt__(another.high, a.high)
    THEN [high_setter(a, another.high) EXCEPT
              !.highInclusive = another.highInclusive]
    ELSE a

RECURSIVE minimize(_, _)
minimize(x, otherRanges) ==
    IF otherRanges = <<>> THEN x
    ELSE LET lo == minimizeLow(x, Head(otherRanges))
         IN  IF lo.brk THEN lo.rng
             ELSE minimize(minimizeHigh(lo.rng, Head(otherRanges)),
                           Tail(otherRanges))

minimized(x, otherRanges) == minimize(copy(x), otherRanges)

\* contains(other) for a scalar
contains(x, other) ==
    LET o == elementFactory(other)
    IN  __ge__(o, x.low) /\ __le__(o, x.high)

\* contains(other) for another Range
containsRange(x, other) ==
    __ge__(other.low, x.low) /\ __le__(other.high, x.high)

(***************************************************************************)
(* The life of one Range: construction, then any sequence of operations.   *)
(* r is the receiver; op, arg, pre and ret record the last call: its name, *)
(* its arguments, the receiver before the call and what it returned.       *)
(***************************************************************************)
Values == {Num(i) : i \in 0..MaxVal}

Deltas == {Num(i) : i \in (0 - MaxVal)..MaxVal}

OptValues == Values \cup {None}

\* the ranges handed to the set algebra as the other operand
OtherRanges ==
    {Range(lo, hi, None, None, li, hi2) :
        lo \in Values, hi \in Values, li \in BOOLEAN, hi2 \in BOOLEAN}

\* argument lists of maximize / minimize: one range, or a list of two
OtherLists ==
    {<<b>> : b \in OtherRanges}
    \cup {<<Range2(a, Num(MaxVal)), Range2(Zero, b)>> :
              a \in {Zero, Num(1)}, b \in {Zero, Num(1)}}

Returned(v) == [err |-> "", val |-> v]

Raised(e) == [err |-> e, val |-> None]

Init ==
    \E lo \in Values, hi \in OptValues, ctr \in {None, Num(1)},
       li \in BOOLEAN, hi2 \in BOOLEAN :
        /\ r = Range(lo, hi, None, ctr, li, hi2)
        /\ op = "__init__"
        /\ arg = [low |-> lo, high |-> hi]
        /\ pre = r
        /\ ret = Returned(None)
        /\ nops = 0

\* every mutating call: the receiver becomes x, the call is recorded
Mutate(name, a, x, v) ==
    /\ nops < MaxOps
    /\ nops' = nops + 1
    /\ pre' = r
    /\ r' = x
    /\ op' = name
    /\ arg' = a
    /\ ret' = Returned(v)

\* every call that leaves the receiver alone
Query(name, a, res) ==
    /\ pre' = r
    /\ op' = name
    /\ arg' = a
    /\ ret' = res
    /\ UNCHANGED <<r, nops>>

Assign ==
    \E lo \in Values, hi \in OptValues :
        /\ nops < MaxOps
        /\ Mutate("assign", [low |-> lo, high |-> hi],
                  assign(r, lo, hi, TRUE), None)

AssignIterable ==
    \E a \in Values, b \in Values :
        Mutate("assignIterable", [items |-> <<a, b>>],
               assignIterable(r, <<a, b>>), None)

SetLow ==
    \E v \in Values : Mutate("low", [x |-> v], low_setter(r, v), None)

SetHigh ==
    \E v \in Values : Mutate("high", [x |-> v], high_setter(r, v), None)

SetCenter ==
    \E v \in Values : Mutate("center", [x |-> v], center_setter(r, v), None)

SetSpan ==
    \E v \in Deltas : Mutate("span", [x |-> v], span_setter(r, v), None)

SetTolerance ==
    \E v \in Deltas : Mutate("tolerance", [x |-> v], tolerance_setter(r, v), None)

SetToleranceTuple ==
    \E c \in Values, t \in Values :
        /\ nops < MaxOps
        /\ Mutate("toleranceTuple", [c |-> c, t |-> t],
                  tolerance_setter_tuple(r, c, t), None)

\* the step assigned
StepValues == {Num(2)}

SetStep ==
    \E v \in StepValues : Mutate("step", [x |-> v], step_setter(r, v), None)

\* the strings assigned, character by character: "2 +/- 1", "12 +/- 1" (a
\* value of two digits) and "2" (no tolerance)
ToleranceStrings ==
    {<<"2", " ", "+", "/", "-", " ", "1">>,
     <<"1", "2", " ", "+", "/", "-", " ", "1">>,
     <<"2">>}

\* a mutating call that may raise after it has written the receiver
MutateOrRaise(name, a, e) ==
    /\ nops < MaxOps
    /\ nops' = nops + 1
    /\ pre' = r
    /\ r' = e.obj
    /\ op' = name
    /\ arg' = a
    /\ ret' = IF e.err = "" THEN Returned(None) ELSE Raised(e.err)

SetToleranceString ==
    \E s \in ToleranceStrings :
        MutateOrRaise("toleranceString", [x |-> s], toleranceString_setter(r, s))

\* tolerance = s with a string: the else branch of tolerance.setter hands
\* str(s), which is s, to toleranceString.setter
SetToleranceStr ==
    \E s \in ToleranceStrings :
        MutateOrRaise("toleranceStr", [x |-> s], toleranceString_setter(r, s))

Shift ==
    \E d \in Deltas : Mutate("shift", [x |-> d], shift(r, d), shift(r, d))

Maximize ==
    \E o \in OtherLists :
        Mutate("maximize", [others |-> o], maximize(r, o), maximize(r, o))

Minimize ==
    \E o \in OtherLists :
        Mutate("minimize", [others |-> o], minimize(r, o), minimize(r, o))

Contains ==
    \E v \in Values : Query("contains", [x |-> v], Returned(contains(r, v)))

Maximized ==
    \E o \in OtherLists \cup {<<r>>} :
        Query("maximized", [others |-> o], Returned(maximized(r, o)))

Minimized ==
    \E o \in OtherLists :
        Query("minimized", [others |-> o], Returned(minimized(r, o)))

Next ==
    \/ Assign
    \/ AssignIterable
    \/ SetLow
    \/ SetHigh
    \/ SetCenter
    \/ SetSpan
    \/ SetTolerance
    \/ SetToleranceTuple
    \/ SetStep
    \/ SetToleranceString
    \/ SetToleranceStr
    \/ Shift
    \/ Maximize
    \/ Minimize

Spec == Init /\ [][Next]_vars

(***************************************************************************)
(* The read-only calls on a constructed Range.                             *)
(***************************************************************************)
QueryNext ==
    \/ Contains
    \/ Maximized
    \/ Minimized

QuerySpec == Init /\ [][QueryNext]_vars

TypeOK ==
    /\ nops \in 0..MaxOps
    /\ r.lowInclusive \in BOOLEAN

(***************************************************************************)
(* split: the sizing of the sections, then the walk that emits the pieces. *)
(***************************************************************************)
Sizing(e, n, size, rem) ==
    [err |-> e, numSections |-> n, sectionSize |-> size, remainderSection |-> rem]

\* by count: sectionSize = (span - 2*endSizes - separatorSizes*(n-1)) / n
splitByCount(x, numSections, endSizes, separatorSizes) ==
    LET t0 == span(x)
        t1 == IF ~IsNone(endSizes)
              THEN __sub__(t0, __mul__(endSizes, Num(2))) ELSE t0
        t2 == IF ~IsNone(separatorSizes)
              THEN __sub__(t1, __mul__(separatorSizes,
                                       __sub__(numSections, Num(1))))
              ELSE t1
    IN  IF numSections = Zero
        THEN Sizing("ZeroDivisionError", 0, None, None)
        ELSE Sizing("", numSections[1], __truediv__(t2, numSections), None)

\* the dispatch on remainderHandling, entered when remainder != 0
splitRemainder(n, size, totalSize, separatorSizes, remainder, remainderHandling) ==
    LET \* the policies that add a section and shrink all of them to fit
        ShrinkSize(k) ==
            IF ~IsNone(separatorSizes)
            THEN __sub__(__truediv__(__add__(totalSize, separatorSizes), Num(k)),
                         separatorSizes)
            ELSE __truediv__(totalSize, Num(k))
        stretch == IF n = 0
                   THEN Sizing("ZeroDivisionError", n, size, None)
                   ELSE Sizing("", n,
                               __add__(size, __truediv__(remainder, Num(n))),
                               None)
        shrink  == IF n + 1 = 0
                   THEN Sizing("ZeroDivisionError", n + 1, size, None)
                   ELSE Sizing("", n + 1,
                               ShrinkSize(n + 1),
                               None)
        large   == __ge__(__truediv__(remainder, size), <<1, 2>>)
    IN  CASE remainderHandling = "remainder_section" ->
                 Sizing("", n, size, remainder)
          [] remainderHandling = "section_stretch" -> stretch
          [] remainderHandling = "section_shrink" -> shrink
          [] remainderHandling = "section_stretch_shrink" ->
                 IF large THEN shrink ELSE stretch
          [] remainderHandling = "total_shrink" -> Sizing("", n, size, None)
          [] remainderHandling = "total_grow" -> Sizing("", n + 1, size, None)
          [] remainderHandling = "total_shrink_grow" ->
                 IF large THEN Sizing("", n + 1, size, None)
                 ELSE Sizing("", n, size, None)
          [] OTHER -> Sizing("NotImplementedError", n, size, None)

\* by size: the exact section count, its floor, and the remainder
splitBySize(x, sectionSize, endSizes, separatorSizes, remainderHandling) ==
    LET size == IF IsNone(sectionSize) THEN step(x)
                ELSE elementFactory(sectionSize)
        t0 == span(x)
        totalSize == IF ~IsNone(endSizes)
                     THEN __sub__(t0, __mul__(endSizes, Num(2))) ELSE t0
        denom == IF ~IsNone(separatorSizes)
                 THEN __add__(size, separatorSizes) ELSE size
        numer == IF ~IsNone(separatorSizes)
                 THEN __add__(totalSize, separatorSizes) ELSE totalSize
    IN  IF denom = Zero
        THEN Sizing("ZeroDivisionError", 0, size, None)
        ELSE LET numSectionsExact == __truediv__(numer, denom)
                 n == Floor(numSectionsExact)
                 remainder == __mul__(size, __sub__(numSectionsExact, Num(n)))
             IN  IF remainder # Zero
                 THEN splitRemainder(n, size, totalSize, separatorSizes,
                                     remainder, remainderHandling)
                 ELSE Sizing("", n, size, None)

Piece(kind, lo, hi) == [kind |-> kind, rng |-> Range2(lo, hi)]

\* the for loop over range(numSections): a section, then a separator after
\* every section when separatorSizes is given
RECURSIVE splitSections(_, _, _, _, _, _, _)
splitSections(pos, k, size, separatorSizes, yieldSections, yieldSeparators, acc) ==
    IF k <= 0 THEN [pos |-> pos, pieces |-> acc]
    ELSE LET a1 == IF yieldSections
                   THEN Append(acc, Piece("section", pos, __add__(pos, size)))
                   ELSE acc
             p1 == __add__(pos, size)
             a2 == IF ~IsNone(separatorSizes) /\ yieldSeparators
                   THEN Append(a1, Piece("separator", p1,
                                         __add__(p1, separatorSizes)))
                   ELSE a1
             p2 == IF ~IsNone(separatorSizes)
                   THEN __add__(p1, separatorSizes) ELSE p1
         IN  splitSections(p2, k - 1, size, separatorSizes, yieldSections,
                           yieldSeparators, a2)

\* the walk from self.min: leading end, sections and separators, the
\* remainder section, trailing end
splitWalk(x, sz, endSizes, separatorSizes, yieldEnds, yieldSections, yieldSeparators) ==
    LET p0 == x.low
        a1 == IF ~IsNone(endSizes) /\ yieldEnds
              THEN <<Piece("end", p0, __add__(p0, endSizes))>> ELSE <<>>
        p1 == IF ~IsNone(endSizes) THEN __add__(p0, endSizes) ELSE p0
        w  == splitSections(p1, sz.numSections, sz.sectionSize,
                            separatorSizes, yieldSections, yieldSeparators, a1)
        a3 == IF ~IsNone(sz.remainderSection) /\ yieldSections
              THEN Append(w.pieces,
                          Piece("remainder", w.pos,
                                __add__(w.pos, sz.remainderSection)))
              ELSE w.pieces
        p3 == IF ~IsNone(sz.remainderSection)
              THEN __add__(w.pos, sz.remainderSection) ELSE w.pos
    IN  IF ~IsNone(endSizes) /\ yieldEnds
        THEN Append(a3, Piece("end", p3, __add__(p3, endSizes)))
        ELSE a3

\* split(...), fully consumed: the error raised, or the pieces in order
split(x, sectionSize, numSections, endSizes, separatorSizes, remainderHandling, yieldEnds, yieldSections, yieldSeparators) ==
    LET e  == IF ~IsNone(endSizes) THEN elementFactory(endSizes) ELSE None
        s  == IF ~IsNone(separatorSizes) THEN elementFactory(separatorSizes)
              ELSE None
        sz == IF ~IsNone(numSections)
              THEN splitByCount(x, numSections, e, s)
              ELSE splitBySize(x, sectionSize, e, s, remainderHandling)
    IN  IF sz.err # "" THEN Raised(sz.err)
        ELSE Returned(splitWalk(x, sz, e, s, yieldEnds, yieldSections,
                                yieldSeparators))

(***************************************************************************)
(* The part arithmetic of the iteration generators.                        *)
(***************************************************************************)
\* maxParts(partSize) = int(span // partSize)
maxParts(x, partSize) == __floordiv__(span(x), partSize)

\* remainder(partSize, numParts) = span - partSize * numParts
remainder(x, partSize, numParts) ==
    __sub__(span(x), __mul__(partSize, Num(numParts)))

\* gapSize(partSize, numParts): the remainder over numParts - 1 (at least 1)
gapSize(x, partSize, numParts) ==
    LET n == IF numParts - 1 < 1 THEN 1 ELSE numParts - 1
    IN  __truediv__(remainder(x, partSize, numParts), Num(n))

(***************************************************************************)
(* split on a constructed Range.  split is a generator: the call runs none *)
(* of its body, the first next() figures out the sizes from the receiver   *)
(* as it is then and walks to the first yield, and every later next()      *)
(* walks on over the locals alone.  Between two next() the caller may      *)
(* write the receiver.                                                     *)
(***************************************************************************)
SplitRanges ==
    {Range2(Zero, Num(12)), Range2(Zero, Num(10)), Range2(Zero, Num(2)),
     Range(Num(1), Num(12), Num(5), None, TRUE, FALSE)}

SectionSizes == {None, Num(3)}

EndSizes == {None, <<1, 2>>}

SeparatorSizes == {None, <<1, 4>>, Num(1)}

Policies ==
    {"remainder_section", "section_stretch", "section_shrink",
     "section_stretch_shrink", "total_shrink", "total_grow",
     "total_shrink_grow"}

\* a remainderHandling name that is none of the seven
UnknownPolicy == "bogus"

\* yieldEnds, yieldSections, yieldSeparators
YieldFlags == {<<TRUE, TRUE, TRUE>>, <<FALSE, TRUE, FALSE>>}

SplitInit ==
    \E x \in SplitRanges :
        /\ r = x
        /\ op = "__init__"
        /\ arg = [low |-> x.low, high |-> x.high]
        /\ pre = r
        /\ ret = Returned(None)
        /\ nops = 0

SplitArgs(size, n, e, s, policy, y) ==
    [sectionSize |-> size, numSections |-> n, endSizes |-> e,
     separatorSizes |-> s, remainderHandling |-> policy,
     yieldEnds |-> y[1], yieldSections |-> y[2], yieldSeparators |-> y[3]]

\* the generator: where it stands, the error it raised, the pieces it has
\* yielded, and the pieces its locals (pos, sectionSize, numSections,
\* remainderSection and the loop counter) have it yield from here on
SplitFrame(pc, err, val, todo) ==
    [pc |-> pc, err |-> err, val |-> val, todo |-> todo]

\* next(g): from the start, the sizing and the walk to the first yield,
\* read from x; from a yield, the walk to the next yield or to the end
splitNext(x, a, g) ==
    IF g.pc = "start"
    THEN LET s == split(x, a.sectionSize, a.numSections, a.endSizes,
                        a.separatorSizes, a.remainderHandling, a.yieldEnds,
                        a.yieldSections, a.yieldSeparators)
         IN  IF s.err # "" THEN SplitFrame("done", s.err, <<>>, <<>>)
             ELSE IF Len(s.val) = 0 THEN SplitFrame("done", "", <<>>, <<>>)
             ELSE SplitFrame("yield", "", <<Head(s.val)>>, Tail(s.val))
    ELSE IF Len(g.todo) = 0 THEN [g EXCEPT !.pc = "done"]
    ELSE SplitFrame("yield", "", Append(g.val, Head(g.todo)), Tail(g.todo))

\* g = self.split(...): a new generator, nothing of the body has run
SplitCall(size, n, e, s, policy, y) ==
    /\ op = "__init__"
    /\ Query("split", SplitArgs(size, n, e, s, policy, y),
             SplitFrame("start", "", <<>>, <<>>))

\* next(g); pre keeps the receiver as the first next() read it
SplitStep ==
    /\ op = "split"
    /\ ret.pc # "done"
    /\ pre' = (IF ret.pc = "start" THEN r ELSE pre)
    /\ ret' = splitNext(r, arg, ret)
    /\ UNCHANGED <<r, op, arg, nops>>

\* the caller assigns low or high of the receiver while the generator lives
SplitWrite ==
    /\ op = "split"
    /\ ret.pc # "done"
    /\ \/ r' = low_setter(r, Num(1))
       \/ r' = high_setter(r, Num(8))
    /\ r' # r
    /\ UNCHANGED <<op, arg, pre, ret, nops>>

SplitByCount ==
    \E n \in 1..MaxSections, e \in EndSizes, s \in SeparatorSizes,
       y \in YieldFlags :
        SplitCall(None, Num(n), e, s, "section_stretch", y)

SplitBySize ==
    \E size \in SectionSizes, e \in EndSizes, s \in SeparatorSizes,
       policy \in Policies \cup {UnknownPolicy}, y \in YieldFlags :
        SplitCall(size, None, e, s, policy, y)

SplitNext ==
    \/ SplitByCount
    \/ SplitBySize
    \/ SplitStep
    \/ SplitWrite

SplitSpec == SplitInit /\ [][SplitNext]_vars

(***************************************************************************)
(* Properties of the bounds and of the set algebra.                        *)
(***************************************************************************)
SameInterval(a, b) ==
    /\ a.low = b.low
    /\ a.high = b.high
    /\ a.lowInclusive = b.lowInclusive
    /\ a.highInclusive = b.highInclusive

\* C1: low <= high in every state reached by construction and any sequence
\* of assign, the low/high/span/tolerance setters, shift, maximize and
\* minimize; assigning a low above high, or a high below low, leaves the
\* range collapsed to the assigned point.
LowNeverAboveHigh ==
    /\ __le__(r.low, r.high)
    /\ (op = "low" /\ __gt__(arg.x, pre.high))
           => (r.low = arg.x /\ r.high = arg.x)
    /\ (op = "high" /\ __lt__(arg.x, pre.low))
           => (r.low = arg.x /\ r.high = arg.x)

\* a range of positive span has just been collapsed by a low above its high
CollapsedByLow ==
    /\ op = "low"
    /\ __lt__(pre.low, pre.high)
    /\ __gt__(arg.x, pre.high)
    /\ r.low = r.high

\* C2: on a range with low < high, contains(x) is true strictly inside, true
\* at low only if lowInclusive, true at high only if highInclusive, and
\* false outside.
ContainsHonorsInclusivity ==
    (op = "contains" /\ __lt__(r.low, r.high)) =>
        (ret.val <=>
            \/ (__lt__(r.low, arg.x) /\ __lt__(arg.x, r.high))
            \/ (arg.x = r.low /\ r.lowInclusive)
            \/ (arg.x = r.high /\ r.highInclusive))

\* C3: a.maximized(b) and b.maximized(a) agree on low, high and both
\* inclusivity flags, and a.maximized(a) agrees with a.
MaximizedCommutativeIdempotent ==
    (op = "maximized" /\ Len(arg.others) = 1) =>
        LET b == arg.others[1]
        IN  /\ SameInterval(ret.val, maximized(b, <<r>>))
            /\ (b = r => SameInterval(ret.val, r))

\* maximized has been called with a range that reaches lower than the
\* receiver and shares its high with the other inclusivity
MaximizedMixedOperands ==
    /\ op = "maximized"
    /\ Len(arg.others) = 1
    /\ __lt__(arg.others[1].low, r.low)
    /\ arg.others[1].high = r.high
    /\ arg.others[1].highInclusive # r.highInclusive
    /\ ret.val.low = arg.others[1].low

\* C4: a.minimize(b) leaves a as the intersection, low = max of the lows and
\* high = min of the highs; when the two are disjoint a is a point at high
\* with lowInclusive false.
MinimizeIsIntersection ==
    (op = "minimize" /\ Len(arg.others) = 1) =>
        LET b  == arg.others[1]
            lo == RMax(pre.low, b.low)
            hi == RMin(pre.high, b.high)
        IN  IF __le__(lo, hi)
            THEN r.low = lo /\ r.high = hi
            ELSE r.low = r.high /\ r.high = hi /\ ~r.lowInclusive

(***************************************************************************)
(* Properties of split and of the iteration generators.                    *)
(***************************************************************************)
Width(p) == span(p.rng)

Kinds(P, kind) == {i \in 1..Len(P) : P[i].kind = kind}

\* the pieces start at lo, each starts where the previous one ended, and
\* the last one ends at hi
Tiles(P, lo, hi) ==
    /\ Len(P) > 0
    /\ P[1].rng.low = lo
    /\ \A i \in 1..(Len(P) - 1) : P[i + 1].rng.low = P[i].rng.high
    /\ P[Len(P)].rng.high = hi

AllYielded == arg.yieldEnds /\ arg.yieldSections /\ arg.yieldSeparators

OrZero(x) == IF IsNone(x) THEN Zero ELSE x

\* the span between the two end sections, of the receiver as the generator
\* read it
Usable == __sub__(span(pre), __mul__(OrZero(arg.endSizes), Num(2)))

RequestedSize == IF IsNone(arg.sectionSize) THEN step(pre) ELSE arg.sectionSize

\* C5: by count, with all pieces yielded and the generator run to its end,
\* split has emitted the leading end, n
\* sections of width (span - 2e - (n-1)s)/n, n-1 separators each between two
\* sections, and the trailing end; the pieces tile the range from low to high.
SplitByCountTiles ==
    (/\ op = "split"
     /\ ret.pc = "done"
     /\ ~IsNone(arg.numSections)
     /\ AllYielded
     /\ __gt__(__sub__(Usable, __mul__(OrZero(arg.separatorSizes),
                                       __sub__(arg.numSections, Num(1)))),
               Zero)) =>
        LET n == arg.numSections[1]
            width == __truediv__(
                         __sub__(Usable, __mul__(OrZero(arg.separatorSizes),
                                                 Num(n - 1))),
                         Num(n))
            P == ret.val
        IN  /\ ret.err = ""
            /\ Cardinality(Kinds(P, "section")) = n
            /\ \A i \in Kinds(P, "section") : Width(P[i]) = width
            /\ Cardinality(Kinds(P, "separator")) =
                   (IF IsNone(arg.separatorSizes) THEN 0 ELSE n - 1)
            /\ \A i \in Kinds(P, "separator") :
                   /\ 1 < i
                   /\ i < Len(P)
                   /\ P[i - 1].kind = "section"
                   /\ P[i + 1].kind = "section"
            /\ ~IsNone(arg.endSizes) =>
                   (P[1].kind = "end" /\ P[Len(P)].kind = "end")
            /\ Tiles(P, pre.low, pre.high)

FillingPolicies ==
    {"section_stretch", "section_shrink", "section_stretch_shrink",
     "remainder_section"}

\* C6: by size under a span-filling policy, with all pieces yielded and the
\* generator run to its end, the
\* pieces tile the range from low to high, the leading end is
\* [low, low+endSizes] and the trailing end is [high-endSizes, high].
SplitBySizeFillsSpan ==
    (/\ op = "split"
     /\ ret.pc = "done"
     /\ IsNone(arg.numSections)
     /\ arg.remainderHandling \in FillingPolicies
     /\ AllYielded
     /\ __gt__(RequestedSize, Zero)
     /\ __ge__(Usable, RequestedSize)) =>
        LET P == ret.val
            e == arg.endSizes
        IN  /\ ret.err = ""
            /\ Tiles(P, pre.low, pre.high)
            /\ ~IsNone(e) =>
                   /\ P[1].rng.low = pre.low
                   /\ P[1].rng.high = __add__(pre.low, e)
                   /\ P[Len(P)].rng.low = __sub__(pre.high, e)
                   /\ P[Len(P)].rng.high = pre.high

\* the exact number of sections of the requested size that fit
ExactCount ==
    IF IsNone(arg.separatorSizes)
    THEN __truediv__(Usable, RequestedSize)
    ELSE __truediv__(__add__(Usable, arg.separatorSizes),
                     __add__(RequestedSize, arg.separatorSizes))

\* C7: by size with a leftover and the generator run to its end,
\* total_shrink has emitted k = floor(exact count)
\* sections and total_grow k+1, all of the requested size; remainder_section
\* emits k sections of the requested size and then one extra section, after
\* the sections and before the trailing end, as wide as the space left over.
SplitLeftoverPolicies ==
    (/\ op = "split"
     /\ ret.pc = "done"
     /\ IsNone(arg.numSections)
     /\ AllYielded
     /\ __gt__(RequestedSize, Zero)
     /\ __ge__(Usable, RequestedSize)
     /\ ExactCount # Num(Floor(ExactCount))
     /\ arg.remainderHandling \in
            {"total_shrink", "total_grow", "remainder_section"}) =>
        LET k == Floor(ExactCount)
            P == ret.val
            S == Kinds(P, "section")
            R == Kinds(P, "remainder")
            usableHigh == __sub__(pre.high, OrZero(arg.endSizes))
        IN  /\ ret.err = ""
            /\ \A i \in S : Width(P[i]) = RequestedSize
            /\ arg.remainderHandling = "total_shrink" =>
                   (Cardinality(S) = k /\ R = {})
            /\ arg.remainderHandling = "total_grow" =>
                   (Cardinality(S) = k + 1 /\ R = {})
            /\ arg.remainderHandling = "remainder_section" =>
                   /\ Cardinality(S) = k
                   /\ Cardinality(R) = 1
                   /\ \A j \in R :
                          /\ \A i \in S : i < j
                          /\ j = (IF IsNone(arg.endSizes) THEN Len(P)
                                  ELSE Len(P) - 1)
                          /\ Width(P[j]) = __sub__(usableHigh, P[j].rng.low)

\* C8: by size, a remainderHandling name outside the seven policies makes
\* split fail with an error and emit nothing, whatever the section size: the
\* generator ends with an error.
SplitUnknownPolicyFails ==
    (/\ op = "split"
     /\ ret.pc = "done"
     /\ IsNone(arg.numSections)
     /\ arg.remainderHandling \notin Policies) =>
        ret.err # ""

(***************************************************************************)
(* Ranges (src/ranges.py): a collection object whose only state is the     *)
(* list _ranges.  In RangesSpec the receiver r is a Ranges object.         *)
(***************************************************************************)
\* Ranges.append(ranges): a single Range is wrapped in a list; the loop body
\* is `raise NotImplementedError()`, so any non-empty argument raises and
\* nothing is ever stored
append(x, ranges) ==
    IF Len(ranges) > 0
    THEN [self |-> x, res |-> Raised("NotImplementedError")]
    ELSE [self |-> x, res |-> Returned(None)]

\* a faulty minimum that returns 0 for a collection without members
minimum_mutant(x) ==
    IF x._ranges = <<>> THEN Returned(Zero)
    ELSE Returned(SeqMin([i \in 1..Len(x._ranges) |-> x._ranges[i].low]))

\* Ranges.minimum: the least low of the members, IndexError when none
minimum(x) ==
    IF x._ranges = <<>> THEN Raised("IndexError")
    ELSE Returned(SeqMin([i \in 1..Len(x._ranges) |-> x._ranges[i].low]))

\* Ranges.maximum: the greatest high of the members, IndexError when none
maximum(x) ==
    IF x._ranges = <<>> THEN Raised("IndexError")
    ELSE Returned(SeqMax([i \in 1..Len(x._ranges) |-> x._ranges[i].high]))

\* Ranges.getRange(item): index of the first member containing item, 0 for
\* the None result
RECURSIVE getRangeFrom(_, _, _)
getRangeFrom(x, item, i) ==
    IF i > Len(x._ranges) THEN 0
    ELSE IF contains(x._ranges[i], item) THEN i
    ELSE getRangeFrom(x, item, i + 1)

getRange(x, item) == getRangeFrom(x, item, 1)

\* min(abs(float(low - item)), abs(float(high - item)))
edgeDistance(m, item) ==
    LET dl == __sub__(m.low, item)
        dh == __sub__(m.high, item)
        al == IF __lt__(dl, Zero) THEN __mul__(dl, Num(-1)) ELSE dl
        ah == IF __lt__(dh, Zero) THEN __mul__(dh, Num(-1)) ELSE dh
    IN  RMin(al, ah)

\* a faulty loop that never assigns bestVal
RECURSIVE nearestLoop_mutant(_, _, _, _, _)
nearestLoop_mutant(x, item, i, best, bestVal) ==
    IF i > Len(x._ranges) THEN best
    ELSE LET val == edgeDistance(x._ranges[i], item)
         IN  IF best = 0 \/ __lt__(val, bestVal)
             THEN nearestLoop_mutant(x, item, i + 1, i, bestVal)
             ELSE nearestLoop_mutant(x, item, i + 1, best, bestVal)

\* the for loop of getNearestRange: best is the index kept in ret (0 for
\* None), bestVal its distance
RECURSIVE nearestLoop(_, _, _, _, _)
nearestLoop(x, item, i, best, bestVal) ==
    IF i > Len(x._ranges) THEN best
    ELSE LET val == edgeDistance(x._ranges[i], item)
         IN  IF best = 0 \/ __lt__(val, bestVal)
             THEN nearestLoop(x, item, i + 1, i, val)
             ELSE nearestLoop(x, item, i + 1, best, bestVal)

\* Ranges.getNearestRange(item): the index of the member returned
getNearestRange(x, item) ==
    IF x._ranges = <<>> THEN Raised("IndexError")
    ELSE IF getRange(x, item) # 0 THEN Returned(getRange(x, item))
    ELSE Returned(nearestLoop(x, item, 1, 0, Zero))

MemberRanges == {Range2(a, b) : a \in Values, b \in Values}

\* lists of ranges to insert
MemberLists ==
    UNION {[1..n -> MemberRanges] : n \in 0..MaxMembers}

\* the scalars looked up: the quarters from -(MaxVal + 2) to MaxVal + 2
Items == {Rat(k, 4) : k \in (0 - 4 * (MaxVal + 2))..(4 * (MaxVal + 2))}

\* the lists handed to append: the lists of up to MaxMembers ranges, and
\* the three ranges of the docstring, Range(5,9), Range(3,5), Range(1,2)
AppendLists ==
    MemberLists
    \cup {<<Range2(Num(5), Num(9)), Range2(Num(3), Num(5)), Range2(Num(1), Num(2))>>}

\* Ranges() and Ranges(None) skip append, Ranges([]) runs its empty loop:
\* _ranges is empty.  A constructor handed any range raises out of append
\* and leaves no object.
RangesInit ==
    \E m \in {None, <<>>} :
        /\ r = [_ranges |-> <<>>]
        /\ op = "__init__"
        /\ arg = [ranges |-> m]
        /\ pre = r
        /\ ret = Returned(None)
        /\ nops = 0

\* a call on the collection: the receiver afterwards and what was returned
RangesCall(name, a, x, res) ==
    /\ pre' = r
    /\ r' = x
    /\ op' = name
    /\ arg' = a
    /\ ret' = res
    /\ UNCHANGED nops

RangesAppend ==
    \E l \in AppendLists :
        RangesCall("append", [ranges |-> l], append(r, l).self, append(r, l).res)

Minimum == RangesCall("minimum", [x |-> None], r, minimum(r))

Maximum == RangesCall("maximum", [x |-> None], r, maximum(r))

GetRange ==
    \E v \in Items : RangesCall("getRange", [x |-> v], r, Returned(getRange(r, v)))

GetNearestRange ==
    \E v \in Items : RangesCall("getNearestRange", [x |-> v], r, getNearestRange(r, v))

RangesNext ==
    \/ RangesAppend
    \/ Minimum
    \/ Maximum
    \/ GetRange
    \/ GetNearestRange

RangesSpec == RangesInit /\ [][RangesNext]_vars

\* getNearestRange reads the list self._ranges and the item, and nothing
\* else.  No call of the class stores a member (append raises before it
\* does), so a list with members is handed to the lookup as its input:
\* c = Ranges(); c._ranges = m, for every list m of one to MaxMembers ranges,
\* in any order, overlapping or not.
NearestInit ==
    \E m \in MemberLists \ {<<>>} :
        /\ r = [_ranges |-> m]
        /\ op = "_ranges"
        /\ arg = [x |-> m]
        /\ pre = [_ranges |-> <<>>]
        /\ ret = Returned(None)
        /\ nops = 0

NearestSpec == NearestInit /\ [][GetNearestRange]_vars

(***************************************************************************)
(* Properties of the Ranges collection.                                    *)
(***************************************************************************)
Members == {r._ranges[i] : i \in 1..Len(r._ranges)}

\* C11: after append the members are sorted ascending by low, no two overlap
\* or touch, and they cover exactly what was inserted: every inserted range
\* and every earlier member lies within one member, and every member's low
\* and high are bounds of inserted ranges or earlier members.
AppendMergesSorted ==
    op = "append" =>
        LET m == r._ranges
            given == {arg.ranges[i] : i \in 1..Len(arg.ranges)}
                     \cup {pre._ranges[i] : i \in 1..Len(pre._ranges)}
        IN  /\ ret.err = ""
            /\ \A i \in 1..(Len(m) - 1) : __lt__(m[i].high, m[i + 1].low)
            /\ \A g \in given : \E x \in Members : containsRange(x, g)
            /\ \A x \in Members :
                   /\ \E g \in given : g.low = x.low
                   /\ \E g \in given : g.high = x.high

\* C12: on a collection with no members, minimum, maximum and
\* getNearestRange fail with an error, return no default, and leave the
\* collection as it was.
EmptyCollectionRaises ==
    (op \in {"minimum", "maximum", "getNearestRange"} /\ pre._ranges = <<>>) =>
        /\ ret.err # ""
        /\ r = pre

\* minimum has been asked of a collection with no members
MinimumOfEmpty ==
    /\ op = "minimum"
    /\ pre._ranges = <<>>
    /\ ret.err = "IndexError"

\* C13: on a collection with members getNearestRange(x) returns the first
\* member containing x when there is one, the member getRange(x) returns,
\* and otherwise a member whose distance min(|low - x|, |high - x|) is least
\* among all members.
NearestRangeIsNearest ==
    (op = "getNearestRange" /\ r._ranges # <<>>) =>
        LET m == r._ranges
            x == arg.x
            holding == {i \in 1..Len(m) :
                            __le__(m[i].low, x) /\ __le__(x, m[i].high)}
        IN  /\ ret.err = ""
            /\ ret.val \in 1..Len(m)
            /\ IF holding # {}
               THEN /\ ret.val \in holding
                    /\ \A i \in holding : ret.val <= i
                    /\ ret.val = getRange(r, x)
               ELSE \A i \in 1..Len(m) :
                        __le__(edgeDistance(m[ret.val], x),
                               edgeDistance(m[i], x))

\* no member contains x, and the member returned is the second, strictly
\* nearer than the first
NearestAmongOutsiders ==
    /\ op = "getNearestRange"
    /\ Len(r._ranges) = 2
    /\ \A i \in 1..2 :
           ~(__le__(r._ranges[i].low, arg.x) /\ __le__(arg.x, r._ranges[i].high))
    /\ __lt__(edgeDistance(r._ranges[2], arg.x),
              edgeDistance(r._ranges[1], arg.x))
    /\ ret = Returned(2)

(***************************************************************************)
(* Relations between ranges and the tolerance view (src/range.py).         *)
(***************************************************************************)
\* Range.overlaps(other): the nested if / elif of the code
overlaps(x, other) ==
    IF __ge__(x.low, other.low)
    THEN __le__(x.low, other.high)
    ELSE __ge__(other.high, x.high)

\* Range._numberLikeAbs(val)
_numberLikeAbs(val) ==
    IF __lt__(val, Zero) THEN __mul__(val, Num(-1)) ELSE val

\* Range.minimumDistance(other) for a scalar
minimumDistance(x, other) ==
    IF contains(x, other) THEN Zero
    ELSE LET o == elementFactory(other)
         IN  RMin(_numberLikeAbs(__sub__(o, x.high)),
                  _numberLikeAbs(__sub__(o, x.low)))

\* Range.minimumDistance(other) for another Range
minimumDistanceRange(x, other) ==
    IF overlaps(x, other) THEN Zero
    ELSE RMin(RMin(_numberLikeAbs(__sub__(other.high, x.high)),
                   _numberLikeAbs(__sub__(other.high, x.low))),
              RMin(_numberLikeAbs(__sub__(other.low, x.high)),
                   _numberLikeAbs(__sub__(other.low, x.low))))

\* the tolerance getter: ValueError when _center is set and differs from
\* high - low, else center - low
tolerance(x) ==
    IF ~IsNone(x.center) /\ x.center # __sub__(x.high, x.low)
    THEN Raised("ValueError")
    ELSE Returned(__sub__(center(x), x.low))

Overlaps ==
    \E o \in OtherRanges :
        Query("overlaps", [other |-> o], Returned(overlaps(r, o)))

MinimumDistance ==
    \E v \in Items :
        Query("minimumDistance", [x |-> v], Returned(minimumDistance(r, v)))

MinimumDistanceRange ==
    \E o \in OtherRanges :
        Query("minimumDistanceRange", [other |-> o],
              Returned(minimumDistanceRange(r, o)))

Tolerance == Query("tolerance", [x |-> None], tolerance(r))

OverlapsSpec == Init /\ [][Overlaps]_vars

DistanceNext ==
    \/ MinimumDistance
    \/ MinimumDistanceRange
    \/ Tolerance

DistanceSpec == Init /\ [][DistanceNext]_vars

\* the closed intervals [a.low, a.high] and [b.low, b.high] share a point
SharePoint(a, b) == __le__(RMax(a.low, b.low), RMin(a.high, b.high))

\* C14: a.overlaps(b) is true exactly when the closed intervals of a and b
\* share at least one point, also when one strictly contains the other, and
\* false when one lies entirely before the other; so it equals b.overlaps(a).
OverlapsIsSharedPoint ==
    op = "overlaps" =>
        /\ ret.val <=> SharePoint(r, arg.other)
        /\ ret.val <=> overlaps(arg.other, r)

\* C15: a.minimumDistance(b) is 0 when the ranges share a point and is the
\* width of the gap between them otherwise; for a scalar x it is 0 when a
\* contains x and min(|x - a.low|, |x - a.high|) otherwise.
MinimumDistanceIsGap ==
    /\ (op = "minimumDistanceRange") =>
           (ret.val = (IF SharePoint(r, arg.other) THEN Zero
                       ELSE __sub__(RMax(r.low, arg.other.low),
                                    RMin(r.high, arg.other.high))))
    /\ (op = "minimumDistance") =>
           (ret.val = (IF __le__(r.low, arg.x) /\ __le__(arg.x, r.high) THEN Zero
                       ELSE RMin(_numberLikeAbs(__sub__(arg.x, r.low)),
                                 _numberLikeAbs(__sub__(arg.x, r.high)))))

\* C17: reading tolerance fails with ValueError exactly when the center is
\* overridden and is not the midpoint (low + high)/2; otherwise it returns
\* center - low.
ToleranceRaisesOffMidpoint ==
    op = "tolerance" =>
        LET off == ~IsNone(r.center) /\ r.center # average(r)
        IN  /\ (ret.err = "ValueError") <=> off
            /\ ~off => (ret.err = "" /\ ret.val = __sub__(center(r), r.low))

(***************************************************************************)
(* minimized over a list of two ranges, against its two pairwise nestings. *)
(***************************************************************************)
\* the third range of a chain: the widest bounds under each pair of flags
ChainEnds ==
    {Range(Zero, Num(MaxVal), None, None, li, hi2) : li \in BOOLEAN, hi2 \in BOOLEAN}

MinimizedList ==
    \E b \in OtherRanges, c \in ChainEnds :
        Query("minimized", [others |-> <<b, c>>], Returned(minimized(r, <<b, c>>)))

ChainSpec == Init /\ [][MinimizedList]_vars

\* a and b have more than a point in common
Overlap(a, b) == __lt__(RMax(a.low, b.low), RMin(a.high, b.high))

\* C16: for ranges a, b, c that pairwise overlap, a.minimized(b).minimized(c),
\* a.minimized(b.minimized(c)) and a.minimized([b, c]) agree on low, high,
\* lowInclusive and highInclusive.
MinimizedAssociative ==
    (/\ op = "minimized"
     /\ Len(arg.others) = 2
     /\ Overlap(r, arg.others[1])
     /\ Overlap(arg.others[1], arg.others[2])
     /\ Overlap(r, arg.others[2])) =>
        LET b == arg.others[1]
            c == arg.others[2]
        IN  /\ SameInterval(ret.val, minimized(minimized(r, <<b>>), <<c>>))
            /\ SameInterval(ret.val, minimized(r, <<minimized(b, <<c>>)>>))

(***************************************************************************)
(* The generators, one step at a time.  A generator object is its frame:   *)
(* the position pc in the function body and the locals.  pc is "start"     *)
(* before the first next(), "test" at the loop condition, "yield" (or      *)
(* "part"/"gap") while suspended at a yield of the loop, "point" while     *)
(* suspended at the yield of the degenerate branch, "done" once returned.  *)
(***************************************************************************)
Frame(pc, partSize, gap, last, current, item, count) ==
    [pc |-> pc, partSize |-> partSize, gapSize |-> gap, last |-> last,
     current |-> current, item |-> item, count |-> count]

\* the generator object a call returns: no statement has run yet
NewFrame(partSize) == Frame("start", partSize, None, None, None, None, 0)

\* iterate(partSize): v is kept in current
iterateNext(x, g) ==
    CASE g.pc = "start" ->
            LET ps == IF IsNone(g.partSize) THEN step(x) ELSE g.partSize
            IN  IF x.low = x.high
                THEN [g EXCEPT !.pc = "point", !.partSize = ps, !.item = x.low]
                ELSE [g EXCEPT !.pc = "test", !.partSize = ps, !.current = x.low]
      [] g.pc = "test" ->
            IF __lt__(g.current, x.high)
            THEN [g EXCEPT !.pc = "yield", !.item = g.current]
            ELSE [g EXCEPT !.pc = "done"]
      [] g.pc = "yield" ->
            [g EXCEPT !.pc = "test", !.current = __add__(g.current, g.partSize)]
      [] g.pc = "point" -> [g EXCEPT !.pc = "done"]

\* iterateEvenly(numParts): numParts is kept in count
iterateEvenlyNext(x, g) ==
    CASE g.pc = "start" ->
            IF x.low = x.high
            THEN Returned([g EXCEPT !.pc = "point", !.item = x])
            ELSE IF g.count = 0
            THEN [err |-> "ZeroDivisionError", val |-> [g EXCEPT !.pc = "done"]]
            ELSE LET ps == __truediv__(span(x), Num(g.count))
                 IN  Returned([g EXCEPT !.pc = "test", !.partSize = ps,
                                        !.last = x.low, !.current = ps])
      [] g.pc = "test" ->
            IF __lt__(g.current, x.high)
            THEN Returned([g EXCEPT !.pc = "yield",
                                    !.item = Range2(g.last, g.current)])
            ELSE Returned([g EXCEPT !.pc = "done"])
      [] g.pc = "yield" ->
            Returned([g EXCEPT !.pc = "test", !.last = g.current,
                               !.current = __add__(g.current, g.partSize)])
      [] g.pc = "point" -> Returned([g EXCEPT !.pc = "done"])

\* iterateWithGaps(partSize); numParts is the local of that name, bound to
\* the value of maxParts(partSize) before gapSize is called with it
iterateWithGapsNext(x, g) ==
    CASE g.pc = "start" ->
            LET size == IF IsNone(g.partSize) THEN step(x) ELSE g.partSize
                ps == elementFactory(size)
            IN  IF __le__(span(x), size)
                THEN Returned([g EXCEPT !.pc = "point", !.partSize = size,
                                        !.item = x])
                ELSE IF ps = Zero
                THEN [err |-> "ZeroDivisionError",
                      val |-> [g EXCEPT !.pc = "done", !.partSize = ps]]
                ELSE CHOOSE next \in
                        {Returned([g EXCEPT
                            !.pc = "test", !.partSize = ps,
                            !.gapSize = gapSize(x, ps, numParts),
                            !.last = x.low, !.current = ps]) :
                         numParts \in {maxParts(x, ps)}} : TRUE
      [] g.pc = "test" ->
            IF __lt__(g.current, x.high)
            THEN Returned([g EXCEPT !.pc = "part",
                                    !.item = Range2(g.last, g.current)])
            ELSE Returned([g EXCEPT !.pc = "done"])
      [] g.pc = "part" ->
            LET c1 == __add__(g.current, g.gapSize)
            IN  IF __ge__(c1, x.high)
                THEN Returned([g EXCEPT !.pc = "done", !.last = g.current,
                                        !.current = c1])
                ELSE Returned([g EXCEPT !.pc = "gap", !.last = g.current,
                                        !.current = c1,
                                        !.item = Range2(g.current, c1)])
      [] g.pc = "gap" ->
            Returned([g EXCEPT !.pc = "test", !.last = g.current,
                               !.current = __add__(g.current, g.partSize)])
      [] g.pc = "point" -> Returned([g EXCEPT !.pc = "done"])

\* a faulty iterateRanges whose loop stops once last reaches high
iterateRangesNext_mutant(x, g) ==
    CASE g.pc = "start" ->
            LET ps == IF IsNone(g.partSize) THEN step(x) ELSE g.partSize
            IN  IF x.low = x.high
                THEN [g EXCEPT !.pc = "point", !.partSize = ps, !.item = x,
                               !.count = 1]
                ELSE [g EXCEPT !.pc = "yield", !.partSize = ps, !.last = x.low,
                               !.current = __add__(x.low, ps),
                               !.item = Range2(x.low, __add__(x.low, ps)),
                               !.count = 1]
      [] g.pc = "yield" ->
            IF __lt__(g.current, x.high)
            THEN [g EXCEPT !.last = g.current,
                           !.current = __add__(g.current, g.partSize),
                           !.item = Range2(g.current,
                                           __add__(g.current, g.partSize)),
                           !.count = g.count + 1]
            ELSE [g EXCEPT !.pc = "done"]
      [] g.pc = "point" -> [g EXCEPT !.pc = "done"]

\* iterateRanges(partSize): `while True`, so the loop has no test position;
\* count is the number of pieces yielded so far
iterateRangesNext(x, g) ==
    CASE g.pc = "start" ->
            LET ps == IF IsNone(g.partSize) THEN step(x) ELSE g.partSize
            IN  IF x.low = x.high
                THEN [g EXCEPT !.pc = "point", !.partSize = ps, !.item = x,
                               !.count = 1]
                ELSE [g EXCEPT !.pc = "yield", !.partSize = ps, !.last = x.low,
                               !.current = __add__(x.low, ps),
                               !.item = Range2(x.low, __add__(x.low, ps)),
                               !.count = 1]
      [] g.pc = "yield" ->
            [g EXCEPT !.last = g.current,
                      !.current = __add__(g.current, g.partSize),
                      !.item = Range2(g.current, __add__(g.current, g.partSize)),
                      !.count = g.count + 1]
      [] g.pc = "point" -> [g EXCEPT !.pc = "done"]

(***************************************************************************)
(* One generator consumed to its end: the initial state is the state after *)
(* the call that made the generator, every step runs it to its next        *)
(* position.  The consumer keeps asking, hence the weak fairness.          *)
(***************************************************************************)
\* the ranges and the part sizes of iterateRanges, iterateEvenly and
\* iterateWithGaps
IterRanges ==
    {Range(Num(lo), Num(hi), stp, None, TRUE, FALSE) :
        lo \in {0, 1, 10}, hi \in {9, 10, 20}, stp \in {None, Num(3)}}

PartSizes == {None, Num(2), Num(3), Num(4)}

GenRanges ==
    {Range(Num(lo), Num(hi), stp, None, TRUE, FALSE) :
        lo \in {0, 1}, hi \in {1, 4, 5}, stp \in {None, Num(2)}}

\* the partSize arguments: the default, a zero step, whole and half steps
GenSizes == {None, Zero, Num(1), Num(2), <<1, 2>>}

GenParts == 0..3

GenInit ==
    /\ r \in GenRanges
    /\ pre = r
    /\ nops = 0
    /\ \/ \E size \in GenSizes :
            /\ op \in {"iterate", "iterateWithGaps"}
            /\ arg = [partSize |-> size]
            /\ ret = Returned(NewFrame(size))
       \/ \E n \in GenParts :
            /\ op = "iterateEvenly"
            /\ arg = [numParts |-> n]
            /\ ret = Returned(Frame("start", None, None, None, None, None, n))

IterateStep ==
    /\ op = "iterate"
    /\ ret.val.pc # "done"
    /\ ret' = Returned(iterateNext(r, ret.val))
    /\ UNCHANGED <<r, op, arg, pre, nops>>

IterateEvenlyStep ==
    /\ op = "iterateEvenly"
    /\ ret.val.pc # "done"
    /\ ret' = iterateEvenlyNext(r, ret.val)
    /\ UNCHANGED <<r, op, arg, pre, nops>>

IterateWithGapsStep ==
    /\ op = "iterateWithGaps"
    /\ ret.val.pc # "done"
    /\ ret' = iterateWithGapsNext(r, ret.val)
    /\ UNCHANGED <<r, op, arg, pre, nops>>

GenNext ==
    \/ IterateStep
    \/ IterateEvenlyStep
    \/ IterateWithGapsStep

GenSpec == GenInit /\ [][GenNext]_vars /\ WF_vars(GenNext)

\* iterateRanges: the pieces are counted, and the count is capped
RangesGenInit ==
    /\ r \in IterRanges
    /\ pre = r
    /\ nops = 0
    /\ op = "iterateRanges"
    /\ \E size \in {None, Num(2), Num(3), Num(4)} :
            /\ arg = [partSize |-> size]
            /\ ret = Returned(NewFrame(size))

IterateRangesStep ==
    /\ ret.val.pc # "done"
    /\ ret.val.count < MaxYield
    /\ ret' = Returned(iterateRangesNext(r, ret.val))
    /\ UNCHANGED <<r, op, arg, pre, nops>>

RangesGenSpec ==
    RangesGenInit /\ [][IterateRangesStep]_vars /\ WF_vars(IterateRangesStep)

(***************************************************************************)
(* Properties of the generators.                                           *)
(***************************************************************************)
\* the step iterateRanges and iterate use
GenStepSize == IF IsNone(arg.partSize) THEN step(r) ELSE arg.partSize

\* what iterateRanges has yielded so far: on a range with low < high the
\* generator has not returned and its k-th piece (k from 0) is
\* [low + k*step, low + (k+1)*step]; on a point it yields the range itself
\* once and nothing else
RangesPieces ==
    LET g == ret.val
        k == g.count - 1
    IN  IF __lt__(r.low, r.high)
        THEN /\ g.pc # "done"
             /\ g.count >= 1 =>
                    /\ g.item.low = __add__(r.low, __mul__(Num(k), GenStepSize))
                    /\ g.item.high =
                           __add__(r.low, __mul__(Num(k + 1), GenStepSize))
        ELSE /\ g.count <= 1
             /\ g.count = 1 => SameInterval(g.item, r)
             /\ g.pc = "done" => g.count = 1

RangeWithSpan == r.low # r.high

RangeIsPoint == r.low = r.high

PiecesReachCap == ret.val.count = MaxYield

OnePieceThenDone == ret.val.pc = "done" /\ ret.val.count = 1

\* C19: on a range with low < high iterateRanges never returns: every k-th
\* piece is eventually yielded and is [low + k*step, low + (k+1)*step], each
\* piece starting where the one before ended, on past high; on a point it
\* yields exactly one piece and then stops.
IterateRangesEndless ==
    /\ []RangesPieces
    /\ RangeWithSpan ~> PiecesReachCap
    /\ RangeIsPoint ~> OnePieceThenDone

\* iterateRanges has yielded a piece that starts at or above high
PieceBeyondHigh ==
    /\ op = "iterateRanges"
    /\ __lt__(r.low, r.high)
    /\ ret.val.pc = "yield"
    /\ ret.val.count >= 2
    /\ __ge__(ret.val.item.low, r.high)

\* the values of iterate: a yielded value is low plus a whole number of
\* steps and lies below high; the generator of a range with low < high has
\* returned only once the next value reached high; a point yields low
IterateValues ==
    op = "iterate" =>
        LET g == ret.val
        IN  /\ g.pc = "yield" =>
                   /\ __le__(r.low, g.item) /\ __lt__(g.item, r.high)
                   /\ \E k \in 0..(r.high[1] * 2) :
                          g.item = __add__(r.low, __mul__(Num(k), GenStepSize))
            /\ g.pc = "point" => (r.low = r.high /\ g.item = r.low)
            /\ (g.pc = "done" /\ __lt__(r.low, r.high)) =>
                   __ge__(g.current, r.high)

GeneratorDone == ret.val.pc = "done"

\* C20: iterate, iterateEvenly and iterateWithGaps are finite: consumed to
\* the end the generator returns, for every range and every step or numParts;
\* iterate yields low, low+step, ... for exactly the values below high, and
\* one value for a point.
GeneratorsTerminate ==
    /\ []IterateValues
    /\ <>GeneratorDone

(***************************************************************************)
(* next(g): the body of a generator runs from where it is suspended to its *)
(* next yield, or to its end.                                              *)
(***************************************************************************)
__next__(kind, x, g) ==
    LET run(f) ==
            CASE kind = "iterate" -> Returned(iterateNext(x, f))
              [] kind = "iterateRanges" -> Returned(iterateRangesNext(x, f))
              [] kind = "iterateEvenly" -> iterateEvenlyNext(x, f)
              [] kind = "iterateWithGaps" -> iterateWithGapsNext(x, f)
        s == run(g)
    IN  IF s.val.pc = "test" THEN run(s.val) ELSE s

(***************************************************************************)
(* iterateEvenly and iterateWithGaps on a constructed Range.  The call     *)
(* makes the generator and runs none of its body; every next() runs it to  *)
(* its next yield, reading the receiver as it is by then; between two      *)
(* next() the caller may assign the receiver's high.  ret holds the frame  *)
(* g and the pieces yielded so far, nops counts the writes.                *)
(***************************************************************************)
\* the values assigned to high while a generator is suspended
IterHighs == {Num(20), Num(40)}

IterInit ==
    \E x \in IterRanges :
        /\ r = x
        /\ op = "__init__"
        /\ arg = [low |-> x.low, high |-> x.high]
        /\ pre = r
        /\ ret = Returned(None)
        /\ nops = 0

IterateEvenly ==
    \E n \in 1..MaxParts :
        /\ op = "__init__"
        /\ Query("iterateEvenly", [numParts |-> n],
                 [err |-> "", val |-> <<>>,
                  g |-> Frame("start", None, None, None, None, None, n)])

IterateWithGaps ==
    \E size \in PartSizes :
        /\ op = "__init__"
        /\ Query("iterateWithGaps", [partSize |-> size],
                 [err |-> "", val |-> <<>>, g |-> NewFrame(size)])

\* next(g); the piece yielded is the receiver itself at the yield of the
\* degenerate branch, and otherwise a part, a section or a gap
IterStep ==
    /\ op \in {"iterateEvenly", "iterateWithGaps"}
    /\ ret.g.pc # "done"
    /\ LET s == __next__(op, r, ret.g)
           kind == CASE s.val.pc = "point" -> "self"
                     [] s.val.pc = "yield" -> "part"
                     [] s.val.pc = "part" -> "section"
                     [] s.val.pc = "gap" -> "gap"
                     [] OTHER -> ""
       IN  ret' = [err |-> s.err, g |-> s.val,
                   val |-> IF s.val.pc = "done" THEN ret.val
                           ELSE Append(ret.val,
                                       [kind |-> kind, rng |-> s.val.item])]
    /\ UNCHANGED <<r, op, arg, pre, nops>>

\* high = v between two next()
IterWrite ==
    /\ op \in {"iterateEvenly", "iterateWithGaps"}
    /\ ret.g.pc # "done"
    /\ nops < MaxOps
    /\ nops' = nops + 1
    /\ \E v \in IterHighs : r' = high_setter(r, v)
    /\ r' # r
    /\ UNCHANGED <<op, arg, pre, ret>>

IterNext ==
    \/ IterateEvenly
    \/ IterateWithGaps
    \/ IterStep
    \/ IterWrite

IterSpec == IterInit /\ [][IterNext]_vars

\* C9: on a range with low < high, iterateEvenly(numParts) yields numParts
\* ranges of width span/numParts that tile the range from low to high (the
\* generator consumed to its end, the receiver not written meanwhile).
IterateEvenlyTiles ==
    (/\ op = "iterateEvenly"
     /\ ret.g.pc = "done"
     /\ nops = 0
     /\ __lt__(r.low, r.high)) =>
        LET P == ret.val
            n == arg.numParts
        IN  /\ ret.err = ""
            /\ Len(P) = n
            /\ \A i \in 1..Len(P) :
                   Width(P[i]) = __truediv__(span(r), Num(n))
            /\ Tiles(P, r.low, r.high)

PartSizeUsed == IF IsNone(arg.partSize) THEN step(r) ELSE arg.partSize

\* C10: when span > step, iterateWithGaps(step) yields section, gap, ...,
\* section: maxParts(step) sections of width step and one gap fewer, the gaps
\* of equal width, tiling the range from low to high and ending in a section
\* (the generator consumed to its end, the receiver not written meanwhile).
IterateWithGapsPattern ==
    (/\ op = "iterateWithGaps"
     /\ ret.g.pc = "done"
     /\ nops = 0
     /\ __gt__(span(r), PartSizeUsed)) =>
        LET P == ret.val
            m == maxParts(r, PartSizeUsed)
        IN  /\ ret.err = ""
            /\ Len(P) = 2 * m - 1
            /\ \A i \in 1..Len(P) :
                   IF i % 2 = 1
                   THEN P[i].kind = "section" /\ Width(P[i]) = PartSizeUsed
                   ELSE P[i].kind = "gap" /\ Width(P[i]) = Width(P[2])
            /\ Tiles(P, r.low, r.high)

(***************************************************************************)
(* Division and the comparison operators of Range.                         *)
(***************************************************************************)
\* Range.__truediv__(other) for a scalar: a new Range of the divided bounds,
\* its center the overridden center over 2
RangeDivScalar(x, other) ==
    LET o == elementFactory(other)
    IN  IF o = Zero THEN Raised("ZeroDivisionError")
        ELSE Returned(Range(__truediv__(x.low, o), __truediv__(x.high, o), None,
                            IF ~IsNone(x.center)
                            THEN __truediv__(x.center, Num(2)) ELSE None,
                            TRUE, FALSE))

\* Range.__truediv__(other) for a Range: the ratio of the spans
RangeDivRange(x, other) ==
    IF other.high = other.low THEN Raised("ZeroDivisionError")
    ELSE Returned(__truediv__(__sub__(x.high, x.low),
                              __sub__(other.high, other.low)))

Range__lt__(x, other) == __lt__(x.high, other.low)

Range__gt__(x, other) == __gt__(x.low, other.high)

Range__le__(x, other) == IF Range__lt__(x, other) THEN TRUE ELSE overlaps(x, other)

Range__ge__(x, other) == IF Range__gt__(x, other) THEN TRUE ELSE overlaps(x, other)

Range__eq__(x, other) == __lt__(x.high, other.low)

\* compare(x, other) under one of the five operators
Compare(which, x, other) ==
    CASE which = "__lt__" -> Range__lt__(x, other)
      [] which = "__gt__" -> Range__gt__(x, other)
      [] which = "__le__" -> Range__le__(x, other)
      [] which = "__ge__" -> Range__ge__(x, other)
      [] which = "__eq__" -> Range__eq__(x, other)

(***************************************************************************)
(* Calls seen with their objects.  h is the list of the live Range         *)
(* objects, a reference is an index into it, and a call gives back the     *)
(* list afterwards, the reference it returns (0 when it returns no Range   *)
(* object of the list) and the value.                                      *)
(***************************************************************************)
Effect(h, ref, res) == [objs |-> h, ref |-> ref, res |-> res]

\* self.copy(): a new object
copyObj(h, self) == Effect(Append(h, copy(h[self])), Len(h) + 1, Returned(None))

\* self.maximize(others): the loop takes each of the others as the object is
\* by then (the receiver may be among them), writes self, returns self
RECURSIVE maximizeObj(_, _, _)
maximizeObj(h, self, others) ==
    IF others = <<>> THEN Effect(h, self, Returned(None))
    ELSE maximizeObj([h EXCEPT ![self] = maximizeOne(h[self], h[Head(others)])],
                     self, Tail(others))

\* self.minimize(others): the loop takes each of the others as the object is
\* by then (the receiver may be among them), writes self, returns self
RECURSIVE minimizeObj(_, _, _)
minimizeObj(h, self, others) ==
    IF others = <<>> THEN Effect(h, self, Returned(None))
    ELSE LET another == h[Head(others)]
             lo == minimizeLow(h[self], another)
         IN  IF lo.brk
             THEN Effect([h EXCEPT ![self] = lo.rng], self, Returned(None))
             ELSE minimizeObj([h EXCEPT ![self] = minimizeHigh(lo.rng, another)],
                              self, Tail(others))

\* self.shift(other): writes self, returns self
shiftObj(h, self, other) ==
    Effect([h EXCEPT ![self] = shift(h[self], other)], self, Returned(None))

\* a faulty maximized that works on the receiver instead of a copy
maximizedObj_mutant(h, self, others) == maximizeObj(h, self, others)

\* self.maximized(others) is self.copy().maximize(others)
maximizedObj(h, self, others) ==
    LET c == copyObj(h, self) IN maximizeObj(c.objs, c.ref, others)

\* self.minimized(others) is self.copy().minimize(others)
minimizedObj(h, self, others) ==
    LET c == copyObj(h, self) IN minimizeObj(c.objs, c.ref, others)

\* self.shifted(other) is self.copy().shift(other)
shiftedObj(h, self, other) ==
    LET c == copyObj(h, self) IN shiftObj(c.objs, c.ref, other)

\* a method that only reads its objects and returns a value
readObj(h, res) == Effect(h, 0, res)

\* next(g) on the generator object h[gen] (the function it runs, the object
\* it runs on, the arguments of the call, its frame): the body runs on the
\* receiver as that is by now; a yielded range is a new object, except in
\* the degenerate branch of iterateRanges, iterateEvenly and
\* iterateWithGaps, which yields the receiver itself
nextObj(h, gen) ==
    LET o == h[gen]
    IN  CHOOSE e \in
            {LET h2 == [h EXCEPT ![gen].frame = s.val]
                 err == IF o.kind = "split" THEN s.val.err ELSE s.err
             IN  IF err # "" THEN Effect(h2, 0, Raised(err))
                 ELSE IF s.val.pc = "done"
                 THEN Effect(h2, 0, Raised("StopIteration"))
                 ELSE IF o.kind = "split"
                 THEN Effect(Append(h2, s.val.val[Len(s.val.val)].rng),
                             Len(h2) + 1, Returned(None))
                 ELSE IF o.kind = "iterate"
                 THEN Effect(h2, 0, Returned(s.val.item))
                 ELSE IF s.val.pc = "point"
                 THEN Effect(h2, o.self, Returned(None))
                 ELSE Effect(Append(h2, s.val.item), Len(h2) + 1, Returned(None)) :
             s \in {IF o.kind = "split"
                    THEN [err |-> "", val |-> splitNext(h[o.self], o.args, o.frame)]
                    ELSE __next__(o.kind, h[o.self], o.frame)}} : TRUE

(***************************************************************************)
(* Calls on a receiver and an argument object.  In FrameSpec r is the list *)
(* of the live Range objects: r[1] is the receiver, r[2] the range handed  *)
(* over as argument; pre is that list before the call.  A Range a call     *)
(* makes lives on only as the value it returned; a generator a call makes  *)
(* is kept as r[3], and maximize and minimize may run between two of its   *)
(* next().                                                                 *)
(***************************************************************************)
FrameOthers ==
    {Range(lo, Num(MaxVal), None, None, li, TRUE) :
        lo \in {Zero, Num(1)}, li \in BOOLEAN}

\* the argument lists: the other object, or the receiver itself
FrameRefs == {<<2>>, <<1>>}

\* the lists handed to the set algebra: one object, or two with the receiver
\* among them
FrameLists == FrameRefs \cup {<<2, 1>>, <<1, 1>>}

FrameInit ==
    \E a \in OtherRanges, b \in FrameOthers :
        /\ r = <<a, b>>
        /\ op = "__init__"
        /\ arg = [others |-> <<>>]
        /\ pre = r
        /\ ret = [err |-> "", val |-> None, ref |-> 0]
        /\ nops = 0

\* once a generator has been made, the calls followed are its next() and
\* the calls that write the receiver
FrameCall(name, a, e) ==
    /\ Len(r) = 2 \/ name \in {"maximize", "minimize", "next"}
    /\ pre' = r
    /\ r' = SubSeq(e.objs, 1, Len(r))
    /\ op' = name
    /\ arg' = a
    /\ ret' = [err |-> e.res.err,
               val |-> IF e.ref # 0 THEN e.objs[e.ref] ELSE e.res.val,
               ref |-> e.ref]
    /\ UNCHANGED nops

FrameCopy ==
    FrameCall("copy", [others |-> <<>>], copyObj(r, 1))

FrameMaximize ==
    \E o \in FrameLists : FrameCall("maximize", [others |-> o], maximizeObj(r, 1, o))

FrameMinimize ==
    \E o \in FrameLists : FrameCall("minimize", [others |-> o], minimizeObj(r, 1, o))

FrameMaximized ==
    \E o \in FrameLists : FrameCall("maximized", [others |-> o], maximizedObj(r, 1, o))

FrameMinimized ==
    \E o \in FrameLists : FrameCall("minimized", [others |-> o], minimizedObj(r, 1, o))

FrameShifted ==
    \E d \in {Num(1), Num(-1)} : FrameCall("shifted", [x |-> d], shiftedObj(r, 1, d))

FrameDivision ==
    \/ \E v \in {Zero, Num(2)} :
            LET q == RangeDivScalar(r[1], v)
            IN  FrameCall("__truediv__", [x |-> v],
                          IF q.err # "" THEN readObj(r, q)
                          ELSE Effect(Append(r, q.val), Len(r) + 1, q))
    \/ FrameCall("__truediv__", [others |-> <<2>>],
                 readObj(r, RangeDivRange(r[1], r[2])))

FrameContains ==
    \/ \E v \in Values :
            FrameCall("contains", [x |-> v], readObj(r, Returned(contains(r[1], v))))
    \/ FrameCall("contains", [others |-> <<2>>],
                 readObj(r, Returned(containsRange(r[1], r[2]))))

FrameOverlaps ==
    FrameCall("overlaps", [others |-> <<2>>],
              readObj(r, Returned(overlaps(r[1], r[2]))))

FrameMinimumDistance ==
    \/ \E v \in Values :
            FrameCall("minimumDistance", [x |-> v],
                      readObj(r, Returned(minimumDistance(r[1], v))))
    \/ FrameCall("minimumDistance", [others |-> <<2>>],
                 readObj(r, Returned(minimumDistanceRange(r[1], r[2]))))

FrameCompare ==
    \E which \in {"__lt__", "__gt__", "__le__", "__ge__", "__eq__"}, o \in FrameRefs :
        FrameCall(which, [others |-> o],
                  readObj(r, Returned(Compare(which, r[1], r[o[1]]))))

\* a call of a generator function: the generator object is made and none
\* of the body runs.  One generator is followed at a time: each of the five
\* calls below is made on a heap that holds none.
FrameGenerator(kind, a, frame) ==
    LET g == [kind |-> kind, self |-> 1, args |-> a, frame |-> frame]
    IN  /\ pre' = r
        /\ r' = Append(r, g)
        /\ op' = kind
        /\ arg' = a
        /\ ret' = [err |-> "", val |-> g, ref |-> Len(r) + 1]
        /\ UNCHANGED nops

FrameSplit ==
    /\ Len(r) = 2
    /\ FrameGenerator("split",
                      SplitArgs(None, Num(2), None, None, "section_stretch",
                                <<TRUE, TRUE, TRUE>>),
                      SplitFrame("start", "", <<>>, <<>>))

FrameIterate ==
    /\ Len(r) = 2
    /\ FrameGenerator("iterate", [partSize |-> None], NewFrame(None))

FrameIterateRanges ==
    /\ Len(r) = 2
    /\ FrameGenerator("iterateRanges", [partSize |-> None], NewFrame(None))

FrameIterateEvenly ==
    /\ Len(r) = 2
    /\ FrameGenerator("iterateEvenly", [numParts |-> 2],
                      Frame("start", None, None, None, None, None, 2))

FrameIterateWithGaps ==
    /\ Len(r) = 2
    /\ FrameGenerator("iterateWithGaps", [partSize |-> None], NewFrame(None))

\* next(g) on the generator made before; iterateRanges is asked for
\* MaxYield pieces at most
FrameGeneratorNext ==
    /\ Len(r) = 3
    /\ r[3].frame.pc # "done"
    /\ r[3].kind = "iterateRanges" => r[3].frame.count < MaxYield
    /\ FrameCall("next", [others |-> <<3>>], nextObj(r, 3))

FrameNext ==
    \/ FrameCopy
    \/ FrameMaximize
    \/ FrameMinimize
    \/ FrameMaximized
    \/ FrameMinimized
    \/ FrameShifted
    \/ FrameDivision
    \/ FrameContains
    \/ FrameOverlaps
    \/ FrameMinimumDistance
    \/ FrameCompare
    \/ FrameSplit
    \/ FrameIterate
    \/ FrameIterateRanges
    \/ FrameIterateEvenly
    \/ FrameIterateWithGaps
    \/ FrameGeneratorNext

FrameSpec == FrameInit /\ [][FrameNext]_vars

NonMutating ==
    {"maximized", "minimized", "shifted", "__truediv__", "contains", "overlaps",
     "minimumDistance", "__lt__", "__gt__", "__le__", "__ge__", "__eq__",
     "split", "iterate", "iterateRanges", "iterateEvenly", "iterateWithGaps",
     "next"}

\* C18: maximized, minimized, shifted, division, contains, overlaps,
\* minimumDistance, the comparisons, split and the iterate* generators leave
\* the receiver's low, high, lowInclusive, highInclusive, step and center
\* override as they were; maximize and minimize change no object but the
\* receiver and return the receiver itself.
FrameCondition ==
    /\ op \in NonMutating => r[1] = pre[1]
    /\ op \in {"maximize", "minimize"} =>
           /\ \A i \in 2..Len(pre) : r[i] = pre[i]
           /\ ret.ref = 1
           /\ ret.val = r[1]

\* maximized has returned a new range wider than the receiver
MaximizedOnCopy ==
    /\ op = "maximized"
    /\ ret.ref # 1
    /\ __lt__(span(pre[1]), span(ret.val))
    /\ r[1] = pre[1]

(***************************************************************************)
(* shift and shifted on one range.                                         *)
(***************************************************************************)
Shifted ==
    \E d \in Deltas : Query("shifted", [x |-> d], Returned(shifted(r, d)))

ShiftNext ==
    \/ Shift
    \/ Shifted

ShiftSpec == Init /\ [][ShiftNext]_vars

\* C21: shift(d) leaves low at the old low + d and high at the old high + d,
\* so the span as it was, for every d; shifted(d) returns a range with these
\* bounds and leaves the receiver as it was.
ShiftMovesBothBounds ==
    /\ op = "shift" =>
           /\ r.low = __add__(pre.low, arg.x)
           /\ r.high = __add__(pre.high, arg.x)
           /\ span(r) = span(pre)
    /\ op = "shifted" =>
           /\ ret.val.low = __add__(pre.low, arg.x)
           /\ ret.val.high = __add__(pre.high, arg.x)
           /\ span(ret.val) = span(pre)
           /\ r = pre

(***************************************************************************)
(* The tolerance setter, with a number, with a (center, tolerance) tuple   *)
(* and with a string, read back through the tolerance getter.              *)
(***************************************************************************)
ToleranceNext ==
    \/ SetTolerance
    \/ SetToleranceTuple
    \/ SetToleranceStr

ToleranceSpec == Init /\ [][ToleranceNext]_vars

\* C22: on a range whose center is not overridden, assigning tolerance = t
\* with t >= 0 keeps the center c and leaves low = c - t and high = c + t, and
\* tolerance then reads back as t; assigning the tuple (c, t) leaves
\* low = c - t and high = c + t, and tolerance then reads back as t.
ToleranceRoundTrip ==
    /\ (op = "tolerance" /\ IsNone(pre.center) /\ __ge__(arg.x, Zero)) =>
           /\ center(r) = center(pre)
           /\ r.low = __sub__(center(pre), arg.x)
           /\ r.high = __add__(center(pre), arg.x)
           /\ tolerance(r) = Returned(arg.x)
    /\ (op = "toleranceTuple" /\ IsNone(pre.center)) =>
           /\ r.low = __sub__(arg.c, arg.t)
           /\ r.high = __add__(arg.c, arg.t)
           /\ tolerance(r) = Returned(arg.t)

\* the methods that return a copy of the receiver, changed or not
Copying == {"copy", "maximized", "minimized", "shifted"}

\* C23: a range whose center was never set has its center at (low + high)/2
\* of its current bounds, also when it is the range returned by copy,
\* maximized, minimized or shifted on such a range; copy returns a range with
\* the receiver's low, high, step and inclusivity flags, and with a center
\* override exactly when the receiver has one.
CenterFollowsBounds ==
    /\ \A i \in 1..2 : IsNone(r[i].center) => center(r[i]) = average(r[i])
    /\ (op \in Copying /\ IsNone(pre[1].center)) =>
           center(ret.val) = average(ret.val)
    /\ op = "copy" =>
           /\ SameInterval(ret.val, pre[1])
           /\ step(ret.val) = step(pre[1])
           /\ IsNone(ret.val.center) <=> IsNone(pre[1].center)

\* C24: for two ranges, a == b is true exactly when a and b have the same
\* low, high and inclusivity flags: a == a is true, a == a.copy() is true,
\* and a == b is false for ranges with different bounds.
EqualsIsSameInterval ==
    /\ op = "__eq__" =>
           (ret.val <=> SameInterval(pre[1], pre[arg.others[1]]))
    /\ op = "copy" => Range__eq__(pre[1], ret.val)

\* C25: a.minimize(a) leaves a with the low, high, lowInclusive and
\* highInclusive it had, and a.minimized(b), for b with the bounds and
\* inclusivity flags of a, returns a range with those of a.
SelfIntersectionNoOp ==
    /\ (op = "minimize" /\ arg.others = <<1>>) => SameInterval(r[1], pre[1])
    /\ (/\ op = "minimized"
        /\ Len(arg.others) = 1
        /\ SameInterval(pre[arg.others[1]], pre[1])) =>
           SameInterval(ret.val, pre[1])

=============================================================================
